---- MODULE Spec2Model ----
(***************************************************************************)
(* routerx: route registration, prefix groups and middleware composition   *)
(* on top of http.ServeMux.                                                *)
(*                                                                         *)
(* Strings are sequences of one-character strings, so that cleanPath and   *)
(* joinPath are computed character by character as the Go code does.       *)
(* A []Middleware is a Go slice: a header (arr, len, cap) over a backing   *)
(* array kept in heap, so that append and copy behave as in Go.            *)
(***************************************************************************)
EXTENDS Naturals, Sequences, FiniteSets, TLC

\* ------------------------------------------------------------------ bounds

\* Number of setup calls (Use, Group, Path, Get, Post, ...) in one run.
MaxCalls == 4
\* Length of the strings given to cleanPath and joinPath in SpecFn.
MaxLen == 3
\* Length of the middleware list given to applyMiddlewares in SpecFn.
MaxMws == 3

\* ------------------------------------------------------------------ inputs

Alphabet == {"/", "a", "b"}
Middlewares == {"A", "B", "C"}
Handlers == {"h1", "h2"}
Methods == {"GET", "POST"}
\* The handler function the application registers for each method.
HandlerOf(method) == IF method = "GET" THEN "h1" ELSE "h2"
\* Paths given to Group, Path and the method registrations: "" and "/a".
PathArgs == {<<>>, <<"/", "a">>}
\* Argument lists given to Use: one middleware, and two at once.
UseArgs == {<<"A">>, <<"B", "A">>}
\* Capacity append may allocate beyond what is needed (the runtime's choice):
\* none, or room for two more elements.
Spares == {0, 2}

RECURSIVE StrsOfLen(_)
StrsOfLen(n) ==
    IF n = 0 THEN {<<>>}
    ELSE {Append(s, c) : s \in StrsOfLen(n - 1), c \in Alphabet}

\* "/api", "/v1", "foo/", "/foo/bar/", "//foo"
ExampleStrs ==
    {<<"/", "a", "p", "i">>, <<"/", "v", "1">>, <<"f", "o", "o", "/">>,
     <<"/", "f", "o", "o", "/", "b", "a", "r", "/">>, <<"/", "/", "f", "o", "o">>}

Strs == ExampleStrs \cup UNION {StrsOfLen(n) : n \in 0..MaxLen}

RECURSIVE MwsOfLen(_)
MwsOfLen(n) ==
    IF n = 0 THEN {<<>>}
    ELSE {Append(s, m) : s \in MwsOfLen(n - 1), m \in Middlewares}

MwLists == UNION {MwsOfLen(n) : n \in 0..MaxMws}

\* ------------------------------------------------------------------ state

VARIABLES
    router,     \* Router: middlewares (slice header); own: the Use arguments so far (history)
    groups,     \* the RouteGroup objects created so far, in creation order
    builders,   \* the PathBuilder objects created so far, in creation order
    heap,       \* backing arrays of the []Middleware slices
    mux,        \* http.ServeMux: the installed routes
    panicked,   \* mux.Handle panicked: setup is aborted
    call,       \* the most recent call of the API: op, the scope it was made on, the
                \* method and resolved path of a registration or request, and for a
                \* request the pattern that served it and the events of the run
    ncalls,     \* number of setup calls made
    fn,         \* SpecFn: the helper function last called
    args,       \* SpecFn: its arguments
    out         \* SpecFn: its result

vars == <<router, groups, builders, heap, mux, panicked, call, ncalls, fn, args, out>>
setupVars == <<router, groups, builders, heap, mux, panicked, call, ncalls>>
fnVars == <<fn, args, out>>

\* ------------------------------------------------------------------ strings

HasPrefix(s, c) == Len(s) > 0 /\ s[1] = c

RECURSIVE TrimRight(_, _)
TrimRight(s, c) ==
    IF Len(s) > 0 /\ s[Len(s)] = c THEN TrimRight(SubSeq(s, 1, Len(s) - 1), c)
    ELSE s

cleanPath(path) ==
    IF path = <<>> \/ path = <<"/">> THEN <<"/">>
    ELSE LET p == IF ~HasPrefix(path, "/") THEN <<"/">> \o path ELSE path
         IN  TrimRight(p, "/")

joinPath(prefix, path) ==
    IF prefix = <<>> \/ prefix = <<"/">> THEN cleanPath(path)
    ELSE cleanPath(prefix) \o cleanPath(path)

\* pattern := method + " " + path
Pattern(method, path) == <<method, " ">> \o path

\* ------------------------------------------------------------------ handlers

\* http.HandlerFunc(handler): the registered function itself.
HandlerFunc(h) == <<"fn", h>>

\* A middleware applied to a handler: a new handler that runs the middleware's
\* pre-logic, then next, then its post-logic.
Wrap(m, next) == <<"mw", m, next>>

RECURSIVE ApplyLoop(_, _, _)
ApplyLoop(handler, middlewares, index) ==
    IF index >= 1
    THEN ApplyLoop(Wrap(middlewares[index], handler), middlewares, index - 1)
    ELSE handler

\* A mutant of applyMiddlewares: the loop runs from the first middleware to the
\* last, so the last middleware becomes the outermost wrapper.
RECURSIVE ApplyLoopForward(_, _, _)
ApplyLoopForward(handler, middlewares, index) ==
    IF index <= Len(middlewares)
    THEN ApplyLoopForward(Wrap(middlewares[index], handler), middlewares, index + 1)
    ELSE handler

applyMiddlewaresForward(handler, middlewares) ==
    IF Len(middlewares) = 0 THEN handler
    ELSE ApplyLoopForward(handler, middlewares, 1)

applyMiddlewares(handler, middlewares) ==
    IF Len(middlewares) = 0 THEN handler
    ELSE ApplyLoop(handler, middlewares, Len(middlewares))

\* handler.ServeHTTP: the events in the order they happen.
RECURSIVE Invoke(_)
Invoke(handler) ==
    IF handler[1] = "fn" THEN <<<<"handler", handler[2]>>>>
    ELSE <<<<"pre", handler[2]>>>> \o Invoke(handler[3]) \o <<<<"post", handler[2]>>>>

\* ------------------------------------------------------------------ SpecFn

\* One call of a helper function on arguments drawn from the input sets.

InitFn == fn = "none" /\ args = <<>> /\ out = <<>>

CallCleanPath ==
    /\ fn = "none"
    /\ \E p \in Strs :
        /\ fn' = "cleanPath"
        /\ args' = <<p>>
        /\ out' = cleanPath(p)
        /\ UNCHANGED setupVars

CallJoinPath ==
    /\ fn = "none"
    /\ \E prefix \in Strs, p \in Strs :
        /\ fn' = "joinPath"
        /\ args' = <<prefix, p>>
        /\ out' = joinPath(prefix, p)
        /\ UNCHANGED setupVars

CallApplyMiddlewares ==
    /\ fn = "none"
    /\ \E h \in Handlers, mws \in MwLists :
        /\ fn' = "applyMiddlewares"
        /\ args' = <<HandlerFunc(h), mws>>
        /\ out' = applyMiddlewares(HandlerFunc(h), mws)
        /\ UNCHANGED setupVars

NextFn == CallCleanPath \/ CallJoinPath \/ CallApplyMiddlewares

\* ------------------------------------------------------------------ slices

NilSlice == [arr |-> 0, len |-> 0, cap |-> 0]

\* The elements of slice s: middlewares[0:len].
Elems(h, s) == IF s.len = 0 THEN <<>> ELSE SubSeq(h[s.arr], 1, s.len)

\* append(s, elems...): in place when the capacity suffices, else into a new,
\* sufficiently large array (how much larger is the runtime's choice: spare).
GoAppend(h, s, elems, spare) ==
    LET need == s.len + Len(elems) IN
    IF Len(elems) = 0 THEN [heap |-> h, slice |-> s]
    ELSE IF need <= s.cap
    THEN [heap  |-> [h EXCEPT ![s.arr] =
                        SubSeq(@, 1, s.len) \o elems \o SubSeq(@, need + 1, s.cap)],
          slice |-> [s EXCEPT !.len = need]]
    ELSE [heap  |-> Append(h, Elems(h, s) \o elems \o [i \in 1..spare |-> "nil"]),
          slice |-> [arr |-> Len(h) + 1, len |-> need, cap |-> need + spare]]

\* A mutant of copyMiddlewares: the child keeps the parent's slice header.
copyMiddlewaresShared(h, s) == [heap |-> h, slice |-> s]

copyMiddlewares(h, s) ==
    IF s.len = 0 THEN [heap |-> h, slice |-> NilSlice]
    ELSE [heap  |-> Append(h, Elems(h, s)),
          slice |-> [arr |-> Len(h) + 1, len |-> s.len, cap |-> s.len]]

\* ------------------------------------------------------------------ scopes

RouterScope == <<"router", 0>>
GroupScope(g) == <<"group", g>>
BuilderScope(b) == <<"builder", b>>

\* The middleware chain a scope holds now.
Chain(scope) ==
    IF scope[1] = "router" THEN Elems(heap, router.middlewares)
    ELSE IF scope[1] = "group" THEN Elems(heap, groups[scope[2]].middlewares)
    ELSE Elems(heap, builders[scope[2]].middlewares)

Scopes ==
    {RouterScope} \cup {GroupScope(g) : g \in DOMAIN groups}
                  \cup {BuilderScope(b) : b \in DOMAIN builders}

NoCall == [op |-> "New", on |-> RouterScope, method |-> "-", path |-> <<>>,
           served |-> <<>>, log |-> <<>>]

\* ------------------------------------------------------------------ ServeMux

Registered(m, pattern) == \E r \in m : r.pattern = pattern

\* mux.Handle(pattern, handler): panics when the pattern is already registered.
MuxHandle(m, pattern, handler, via) ==
    IF Registered(m, pattern)
    THEN [mux |-> m, panicked |-> TRUE]
    ELSE [mux |-> m \cup {[pattern |-> pattern, handler |-> handler, via |-> via]},
          panicked |-> FALSE]

\* mux.ServeHTTP(w, r): the route registered for the request's method and path.
MuxMatch(m, method, path) == {r \in m : r.pattern = Pattern(method, path)}

Init ==
    /\ router = [middlewares |-> NilSlice, own |-> <<>>]
    /\ groups = <<>>
    /\ builders = <<>>
    /\ heap = <<>>
    /\ mux = {}
    /\ panicked = FALSE
    /\ call = NoCall
    /\ ncalls = 0
    /\ InitFn

CanCall == ~panicked /\ ncalls < MaxCalls

\* ------------------------------------------------------------------ Router

\* router.middlewares = append(router.middlewares, middlewares...)
Router_Use(middlewares, spare) == GoAppend(heap, router.middlewares, middlewares, spare)

Router_Group(prefix) ==
    LET c == copyMiddlewares(heap, router.middlewares) IN
    [heap  |-> c.heap,
     group |-> [prefix |-> cleanPath(prefix), middlewares |-> c.slice,
                parent |-> RouterScope, inherited |-> Chain(RouterScope), own |-> <<>>]]

Router_Path(path) ==
    LET c == copyMiddlewares(heap, router.middlewares) IN
    [heap    |-> c.heap,
     builder |-> [basePath |-> cleanPath(path), middlewares |-> c.slice,
                  parent |-> RouterScope, inherited |-> Chain(RouterScope)]]

\* A mutant of Router_handle: a pattern registered again replaces the route.
Router_handleReplace(method, path, handler, middlewares) ==
    LET pattern == Pattern(method, path) IN
    [mux |-> {r \in mux : r.pattern # pattern} \cup
             {[pattern |-> pattern,
               handler |-> applyMiddlewares(HandlerFunc(handler), middlewares),
               via |-> RouterScope]},
     panicked |-> FALSE]

Router_handle(method, path, handler, middlewares) ==
    LET pattern == Pattern(method, path)
        finalHandler == applyMiddlewares(HandlerFunc(handler), middlewares)
    IN  MuxHandle(mux, pattern, finalHandler, RouterScope)

\* ------------------------------------------------------------------ RouteGroup

\* A mutant of RouteGroup_Use: the new middleware goes in front of the chain.
RouteGroup_UsePrepend(g, middlewares, spare) ==
    GoAppend(heap, NilSlice, middlewares \o Elems(heap, groups[g].middlewares), spare)

\* group.middlewares = append(group.middlewares, middlewares...)
RouteGroup_Use(g, middlewares, spare) ==
    GoAppend(heap, groups[g].middlewares, middlewares, spare)

\* A mutant of RouteGroup_Group: the nested group is given the group's slice
\* itself, not a copy of it.
RouteGroup_GroupShared(g, prefix) ==
    [heap  |-> heap,
     group |-> [prefix |-> joinPath(groups[g].prefix, prefix),
                middlewares |-> groups[g].middlewares,
                parent |-> GroupScope(g), inherited |-> Chain(GroupScope(g)),
                own |-> <<>>]]

RouteGroup_Group(g, prefix) ==
    LET c == copyMiddlewares(heap, groups[g].middlewares) IN
    [heap  |-> c.heap,
     group |-> [prefix |-> joinPath(groups[g].prefix, prefix), middlewares |-> c.slice,
                parent |-> GroupScope(g), inherited |-> Chain(GroupScope(g)),
                own |-> <<>>]]

RouteGroup_Path(g, path) ==
    LET c == copyMiddlewares(heap, groups[g].middlewares) IN
    [heap    |-> c.heap,
     builder |-> [basePath |-> joinPath(groups[g].prefix, path), middlewares |-> c.slice,
                  parent |-> GroupScope(g), inherited |-> Chain(GroupScope(g))]]

RouteGroup_handle(g, method, path, handler) ==
    LET fullPath == joinPath(groups[g].prefix, path)
        pattern == Pattern(method, fullPath)
        finalHandler == applyMiddlewares(HandlerFunc(handler), Chain(GroupScope(g)))
    IN  MuxHandle(mux, pattern, finalHandler, GroupScope(g))

\* ------------------------------------------------------------------ PathBuilder

\* A mutant of PathBuilder_register: the pattern is built with "GET" whatever the
\* method.
PathBuilder_registerGet(b, method, handler) ==
    LET pattern == Pattern("GET", builders[b].basePath)
        finalHandler == applyMiddlewares(HandlerFunc(handler), Chain(BuilderScope(b)))
    IN  MuxHandle(mux, pattern, finalHandler, BuilderScope(b))

PathBuilder_register(b, method, handler) ==
    LET pattern == Pattern(method, builders[b].basePath)
        finalHandler == applyMiddlewares(HandlerFunc(handler), Chain(BuilderScope(b)))
    IN  MuxHandle(mux, pattern, finalHandler, BuilderScope(b))

\* ------------------------------------------------------------------ actions

Called(op, scope, method, path) ==
    [NoCall EXCEPT !.op = op, !.on = scope, !.method = method, !.path = path]

\* A mutant of RouterUse: the new middleware is also wrapped around the routes
\* the Router has already installed.
RouterUseRetroactive ==
    /\ CanCall
    /\ \E middlewares \in UseArgs, spare \in Spares :
        LET r == Router_Use(middlewares, spare) IN
        /\ router' = [middlewares |-> r.slice, own |-> router.own \o middlewares]
        /\ heap' = r.heap
        /\ mux' = {IF x.via = RouterScope
                   THEN [x EXCEPT !.handler = applyMiddlewares(@, middlewares)]
                   ELSE x : x \in mux}
        /\ call' = Called("Use", RouterScope, "-", <<>>)
    /\ ncalls' = ncalls + 1
    /\ UNCHANGED <<groups, builders, panicked, fnVars>>

\* router.Use(middlewares...)
RouterUse ==
    /\ CanCall
    /\ \E middlewares \in UseArgs, spare \in Spares :
        LET r == Router_Use(middlewares, spare) IN
        /\ router' = [middlewares |-> r.slice, own |-> router.own \o middlewares]
        /\ heap' = r.heap
        /\ call' = Called("Use", RouterScope, "-", <<>>)
    /\ ncalls' = ncalls + 1
    /\ UNCHANGED <<groups, builders, mux, panicked, fnVars>>

\* router.Group(prefix)
RouterGroup ==
    /\ CanCall
    /\ \E prefix \in PathArgs :
        LET r == Router_Group(prefix) IN
        /\ groups' = Append(groups, r.group)
        /\ heap' = r.heap
        /\ call' = Called("Group", RouterScope, "-", <<>>)
    /\ ncalls' = ncalls + 1
    /\ UNCHANGED <<router, builders, mux, panicked, fnVars>>

\* router.Path(path)
RouterPath ==
    /\ CanCall
    /\ \E path \in PathArgs :
        LET r == Router_Path(path) IN
        /\ builders' = Append(builders, r.builder)
        /\ heap' = r.heap
        /\ call' = Called("Path", RouterScope, "-", <<>>)
    /\ ncalls' = ncalls + 1
    /\ UNCHANGED <<router, groups, mux, panicked, fnVars>>

\* router.Get(path, handler), router.Post(path, handler), ...
RouterMethod ==
    /\ CanCall
    /\ \E method \in Methods, path \in PathArgs :
        LET r == Router_handle(method, cleanPath(path), HandlerOf(method),
                               Chain(RouterScope)) IN
        /\ mux' = r.mux
        /\ panicked' = r.panicked
        /\ call' = Called("Handle", RouterScope, method, cleanPath(path))
    /\ ncalls' = ncalls + 1
    /\ UNCHANGED <<router, groups, builders, heap, fnVars>>

\* group.Use(middlewares...)
GroupUse ==
    /\ CanCall
    /\ \E g \in DOMAIN groups, middlewares \in UseArgs, spare \in Spares :
        LET r == RouteGroup_Use(g, middlewares, spare) IN
        /\ groups' = [groups EXCEPT ![g].middlewares = r.slice,
                                    ![g].own = @ \o middlewares]
        /\ heap' = r.heap
        /\ call' = Called("Use", GroupScope(g), "-", <<>>)
    /\ ncalls' = ncalls + 1
    /\ UNCHANGED <<router, builders, mux, panicked, fnVars>>

\* group.Group(prefix)
GroupGroup ==
    /\ CanCall
    /\ \E g \in DOMAIN groups, prefix \in PathArgs :
        LET r == RouteGroup_Group(g, prefix) IN
        /\ groups' = Append(groups, r.group)
        /\ heap' = r.heap
        /\ call' = Called("Group", GroupScope(g), "-", <<>>)
    /\ ncalls' = ncalls + 1
    /\ UNCHANGED <<router, builders, mux, panicked, fnVars>>

\* group.Path(path)
GroupPath ==
    /\ CanCall
    /\ \E g \in DOMAIN groups, path \in PathArgs :
        LET r == RouteGroup_Path(g, path) IN
        /\ builders' = Append(builders, r.builder)
        /\ heap' = r.heap
        /\ call' = Called("Path", GroupScope(g), "-", <<>>)
    /\ ncalls' = ncalls + 1
    /\ UNCHANGED <<router, groups, mux, panicked, fnVars>>

\* group.Get(path, handler), group.Post(path, handler), ...
GroupMethod ==
    /\ CanCall
    /\ \E g \in DOMAIN groups, method \in Methods, path \in PathArgs :
        LET r == RouteGroup_handle(g, method, path, HandlerOf(method)) IN
        /\ mux' = r.mux
        /\ panicked' = r.panicked
        /\ call' = Called("Handle", GroupScope(g), method, joinPath(groups[g].prefix, path))
    /\ ncalls' = ncalls + 1
    /\ UNCHANGED <<router, groups, builders, heap, fnVars>>

\* builder.Get(handler), builder.Post(handler), ...
BuilderMethod ==
    /\ CanCall
    /\ \E b \in DOMAIN builders, method \in Methods :
        LET r == PathBuilder_register(b, method, HandlerOf(method)) IN
        /\ mux' = r.mux
        /\ panicked' = r.panicked
        /\ call' = Called("Handle", BuilderScope(b), method, builders[b].basePath)
    /\ ncalls' = ncalls + 1
    /\ UNCHANGED <<router, groups, builders, heap, fnVars>>

\* The path of a pattern "<METHOD> <path>".
PatternPath(pattern) == SubSeq(pattern, 3, Len(pattern))

\* Requests: the methods and the paths of the installed routes, in any combination.
ReqMethods == {r.pattern[1] : r \in mux}
ReqPaths == {PatternPath(r.pattern) : r \in mux}

\* router.ServeHTTP(responseWriter, request)
ServeHTTP ==
    /\ ~panicked
    /\ \E method \in ReqMethods, path \in ReqPaths :
        LET m == MuxMatch(mux, method, path) IN
        call' = [op |-> "ServeHTTP", on |-> RouterScope, method |-> method,
                 path |-> path,
                 served |-> IF m = {} THEN <<>> ELSE (CHOOSE r \in m : TRUE).pattern,
                 log |-> IF m = {} THEN <<<<"404", "-">>>>
                         ELSE Invoke((CHOOSE r \in m : TRUE).handler)]
    /\ UNCHANGED <<router, groups, builders, heap, mux, panicked, ncalls, fnVars>>

Next ==
    \/ RouterUse \/ RouterGroup \/ RouterPath \/ RouterMethod
    \/ GroupUse \/ GroupGroup \/ GroupPath \/ GroupMethod
    \/ BuilderMethod
    \/ ServeHTTP

Spec == Init /\ [][Next]_vars

SpecFn == Init /\ [][NextFn]_vars

\* ------------------------------------------------------------------ properties

\* The middlewares wrapped around a handler, outermost first.
RECURSIVE Mws(_)
Mws(handler) ==
    IF handler[1] = "fn" THEN <<>> ELSE <<handler[2]>> \o Mws(handler[3])

\* The registered function at the core of a handler.
RECURSIVE Target(_)
Target(handler) == IF handler[1] = "fn" THEN handler[2] ELSE Target(handler[3])

PreEvents(ms) == [i \in 1..Len(ms) |-> <<"pre", ms[i]>>]
PostEvents(ms) == [i \in 1..Len(ms) |-> <<"post", ms[Len(ms) + 1 - i]>>]

IsPrefixOf(s, t) == Len(s) <= Len(t) /\ SubSeq(t, 1, Len(s)) = s

\* What a child scope was given at creation, and what Use has added to it since.
Inherited(scope) ==
    IF scope[1] = "group" THEN groups[scope[2]].inherited
    ELSE builders[scope[2]].inherited

Own(scope) == IF scope[1] = "group" THEN groups[scope[2]].own ELSE <<>>

ParentOf(scope) ==
    IF scope[1] = "group" THEN groups[scope[2]].parent ELSE builders[scope[2]].parent

Children == Scopes \ {RouterScope}

\* The chain a scope should hold, from the Use calls made on it and on its
\* ancestors: what the parent's calls had added when the scope was created,
\* then the scope's own.
RECURSIVE Effective(_)
Effective(scope) ==
    IF scope = RouterScope THEN router.own
    ELSE SubSeq(Effective(ParentOf(scope)), 1, Len(Inherited(scope))) \o Own(scope)

SetupStep == ncalls' = ncalls + 1

\* The slice header of a scope.
SliceOf(scope) ==
    IF scope[1] = "router" THEN router.middlewares
    ELSE IF scope[1] = "group" THEN groups[scope[2]].middlewares
    ELSE builders[scope[2]].middlewares

NoSharedArray ==
    \A s \in Scopes, t \in Scopes :
        (s # t /\ SliceOf(s).arr # 0) => SliceOf(s).arr # SliceOf(t).arr

\* A path with a single leading slash and no trailing slash, or the root "/".
Normalized(path) ==
    \/ path = <<"/">>
    \/ /\ Len(path) >= 2
       /\ path[1] = "/"
       /\ path[2] # "/"
       /\ path[Len(path)] # "/"

NoDoubleSlash(path) ==
    \A i \in 1..(Len(path) - 1) : ~(path[i] = "/" /\ path[i + 1] = "/")

\* C1: the handler applyMiddlewares builds from h and [m0..mn-1] runs m0.pre, ...,
\* mn-1.pre, h, mn-1.post, ..., m0.post in that order; with the empty list the
\* target handler is returned unchanged.
C1_WrapOrder ==
    fn = "applyMiddlewares" =>
        /\ Invoke(out) = PreEvents(args[2]) \o Invoke(args[1]) \o PostEvents(args[2])
        /\ (args[2] = <<>> => out = args[1])

C1_Witness ==
    /\ fn = "applyMiddlewares"
    /\ args = <<HandlerFunc("h1"), <<"A", "B", "C">>>>
    /\ Invoke(out) = <<<<"pre", "A">>, <<"pre", "B">>, <<"pre", "C">>, <<"handler", "h1">>,
                       <<"post", "C">>, <<"post", "B">>, <<"post", "A">>>>

\* C2: a child scope created by Group or Path holds what its parent held when it
\* was created, followed by what Use added to the child itself; a route
\* registered through the child is wrapped in that and nothing else, so a Use on
\* the parent after the child was created never reaches it.
C2_SnapshotIsolation ==
    /\ \A c \in Children : Chain(c) = Inherited(c) \o Own(c)
    /\ \A r \in mux :
        r.via # RouterScope =>
            /\ IsPrefixOf(Inherited(r.via), Mws(r.handler))
            /\ IsPrefixOf(Mws(r.handler), Inherited(r.via) \o Own(r.via))

C2_Witness ==
    \E g \in DOMAIN groups, r \in mux :
        /\ groups[g].parent = RouterScope
        /\ groups[g].inherited = <<"A">>
        /\ Chain(RouterScope) = <<"A", "B", "A">>
        /\ r.via = GroupScope(g)
        /\ call.op = "ServeHTTP"
        /\ call.served = r.pattern
        /\ call.log = <<<<"pre", "A">>, <<"handler", Target(r.handler)>>, <<"post", "A">>>>

\* C3: a registration whose method and pattern are already installed, from
\* whatever scope, aborts setup and leaves the installed routes as they were; no
\* two installed routes share a pattern.
C3_DuplicateIsFatal ==
    [][/\ (/\ SetupStep
           /\ call'.op = "Handle"
           /\ Registered(mux, Pattern(call'.method, call'.path)))
          => (panicked' /\ mux' = mux)
       /\ \A r1 \in mux', r2 \in mux' : r1.pattern = r2.pattern => r1 = r2]_vars

C3_Witness ==
    /\ panicked
    /\ call.op = "Handle"
    /\ \E r \in mux :
        /\ r.pattern = Pattern(call.method, call.path)
        /\ r.via # call.on
        /\ Cardinality(mux) = 1

\* C4: joinPath(prefix, path) is cleanPath(path) when prefix is "" or "/", and
\* otherwise starts with cleanPath(prefix) and has no double slash and no trailing
\* slash; joinPath("/api", "/v1") = "/api/v1", joinPath("/", "/v1") = "/v1" and
\* joinPath("/api", "") = "/api".
C4_JoinClean ==
    fn = "joinPath" =>
        LET prefix == args[1]
            path == args[2]
        IN  /\ (prefix = <<>> \/ prefix = <<"/">>) => out = cleanPath(path)
            /\ ~(prefix = <<>> \/ prefix = <<"/">>) =>
                /\ IsPrefixOf(cleanPath(prefix), out)
                /\ NoDoubleSlash(out)
                /\ (Len(out) > 0 => out[Len(out)] # "/")
            /\ (prefix = <<"/", "a", "p", "i">> /\ path = <<"/", "v", "1">>)
                   => out = <<"/", "a", "p", "i", "/", "v", "1">>
            /\ (prefix = <<"/">> /\ path = <<"/", "v", "1">>) => out = <<"/", "v", "1">>
            /\ (prefix = <<"/", "a", "p", "i">> /\ path = <<>>)
                   => out = <<"/", "a", "p", "i">>

\* C5: cleanPath(p) is "/" when p is "" or "/", and otherwise has exactly one
\* leading slash and no trailing slash, whatever p is.
C5_CleanNormalizes ==
    fn = "cleanPath" =>
        IF args[1] = <<>> \/ args[1] = <<"/">> THEN out = <<"/">>
        ELSE /\ Len(out) >= 2
             /\ out[1] = "/"
             /\ out[2] # "/"
             /\ out[Len(out)] # "/"

\* C6: every group's prefix, every builder's path and the path of every installed
\* pattern has a single leading slash and no trailing slash, or is the root "/".
C6_PathsNormalized ==
    /\ \A g \in DOMAIN groups : Normalized(groups[g].prefix)
    /\ \A b \in DOMAIN builders : Normalized(builders[b].basePath)
    /\ \A r \in mux : Normalized(PatternPath(r.pattern))

\* C7: the chain of a scope is what Use added to its ancestors before the scope
\* descended from them, outermost ancestor first, then what Use added to the scope,
\* each in call order; a route runs the chain its scope had when it was
\* registered, in that order, before its handler.
C7_AncestorsFirst ==
    /\ \A s \in Scopes : Chain(s) = Effective(s)
    /\ \A r \in mux :
        LET k == Len(Mws(r.handler))
            log == Invoke(r.handler)
        IN  /\ k <= Len(Effective(r.via))
            /\ \A i \in 1..k : log[i] = <<"pre", Effective(r.via)[i]>>
            /\ log[k + 1] = <<"handler", Target(r.handler)>>
    /\ (call.op = "Handle" /\ ~panicked) =>
        \E r \in mux :
            /\ r.pattern = Pattern(call.method, call.path)
            /\ r.via = call.on
            /\ Mws(r.handler) = Effective(call.on)

C7_Witness ==
    \E g \in DOMAIN groups, r \in mux :
        /\ groups[g].parent = RouterScope
        /\ router.own = <<"A">>
        /\ groups[g].own = <<"B", "A">>
        /\ r.via = GroupScope(g)
        /\ call.op = "ServeHTTP"
        /\ call.served = r.pattern
        /\ call.log = <<<<"pre", "A">>, <<"pre", "B">>, <<"pre", "A">>,
                        <<"handler", Target(r.handler)>>,
                        <<"post", "A">>, <<"post", "B">>, <<"post", "A">>>>

\* C8: a method registered through a PathBuilder is installed under
\* "<METHOD> <path>" for the builder's path, and fails only when that very pattern
\* is installed already; a request is served by the route of its own method, never
\* by the handler registered for another method.
C8_MethodsIndependent ==
    [][/\ (SetupStep /\ call'.op = "Handle" /\ call'.on[1] = "builder") =>
            LET pattern == Pattern(call'.method, builders[call'.on[2]].basePath) IN
            IF Registered(mux, pattern) THEN panicked' /\ mux' = mux
            ELSE /\ ~panicked'
                 /\ \E r \in mux' :
                     /\ r.pattern = pattern
                     /\ Target(r.handler) = HandlerOf(call'.method)
                     /\ mux' = mux \cup {r}
       /\ (call'.op = "ServeHTTP" /\ call'.served # <<>>) =>
            /\ call'.served = Pattern(call'.method, call'.path)
            /\ \E r \in mux :
                /\ r.pattern = call'.served
                /\ call'.log = Invoke(r.handler)
                /\ Target(r.handler) = HandlerOf(call'.method)]_vars

C8_Witness ==
    \E b \in DOMAIN builders, r1 \in mux, r2 \in mux :
        /\ ~panicked
        /\ r1.via = BuilderScope(b)
        /\ r2.via = BuilderScope(b)
        /\ r1.pattern = Pattern("GET", builders[b].basePath)
        /\ r2.pattern = Pattern("POST", builders[b].basePath)
        /\ call.op = "ServeHTTP"
        /\ call.method = "GET"
        /\ call.served = r1.pattern
        /\ call.log = <<<<"handler", "h1">>>>

\* C9: an installed route never changes: a Use, Group or Path call leaves the
\* installed routes as they are, and a registration only adds a route.
C9_RoutesImmutable ==
    [][/\ (SetupStep /\ call'.op \in {"Use", "Group", "Path"}) => mux' = mux
       /\ \A r \in mux : r \in mux']_vars

C9_Witness ==
    \E r \in mux :
        /\ call.op = "Use"
        /\ call.on = r.via
        /\ Mws(r.handler) = <<"A">>
        /\ Chain(r.via) = <<"A", "B", "A">>

\* C10: a Use on a RouteGroup changes the chain of no other scope (its parent, a
\* sibling group or builder, or any other), and no two scopes share a backing
\* array.
C10_UseIsLocal ==
    [][/\ (SetupStep /\ call'.op = "Use" /\ call'.on[1] = "group") =>
            \A s \in Scopes \ {call'.on} : Chain(s)' = Chain(s)
       /\ NoSharedArray']_vars

C10_Witness ==
    \E g \in DOMAIN groups, h \in DOMAIN groups :
        /\ g # h
        /\ call.op = "Use"
        /\ call.on = GroupScope(g)
        /\ groups[g].parent = groups[h].parent
        /\ groups[g].inherited = <<"A">>
        /\ Chain(GroupScope(h)) = <<"A">>
        /\ Chain(GroupScope(g)) = <<"A", "B", "A">>
        /\ Chain(ParentOf(GroupScope(g))) = <<"A">>

====
